---- MODULE Spec2Model ----
(***************************************************************************)
(* Model of the code-reviewer repository:                                  *)
(*   - the Batch Reviewer, the Python script embedded in                   *)
(*     .github/workflows/ai-code-review.yml (main, review_code,            *)
(*     should_exclude, is_source_file, generate_markdown_report,           *)
(*     sanitize_markdown);                                                 *)
(*   - sanitize_markdown as a pure function over bounded texts;            *)
(*   - the Request Relay (POST /api/review) of section 4.1;                *)
(*   - the workflow's steps around the script: the readiness wait and the  *)
(*     steps before the review step, and the commit step after it;         *)
(*   - the Home form and the Results page of the frontend.                 *)
(* Python strings are sequences of one-character strings, so that split,   *)
(* endswith, basename and replace are computed and not assumed.            *)
(***************************************************************************)
EXTENDS Integers, Sequences, FiniteSets, TLC

\* ------------------------------------------------------------------ bounds
\* largest number of files in the walked tree
MaxFiles == 3
\* longest review text given to sanitize_markdown on its own
MaxLen == 3
\* number of requests the relay serves in one behaviour
MaxRequests == 2

\* ------------------------------------------------------- string primitives
\* os.path.sep on the runner (ubuntu-latest)
sep == "/"

RECURSIVE Replace(_, _, _)
\* str.replace(old, new) for a one-character old
Replace(s, old, new) ==
    IF s = <<>> THEN <<>>
    ELSE (IF Head(s) = old THEN new ELSE <<Head(s)>>) \o Replace(Tail(s), old, new)

\* str.endswith(suffix)
EndsWith(s, suffix) ==
    /\ Len(s) >= Len(suffix)
    /\ SubSeq(s, Len(s) - Len(suffix) + 1, Len(s)) = suffix

RECURSIVE Split(_, _)
\* str.split(separator): the pieces between the separators, empty ones kept
Split(s, c) ==
    IF \A i \in 1..Len(s) : s[i] # c THEN <<s>>
    ELSE LET i == CHOOSE k \in 1..Len(s) :
                      /\ s[k] = c
                      /\ \A m \in 1..(k - 1) : s[m] # c
         IN  <<SubSeq(s, 1, i - 1)>> \o Split(SubSeq(s, i + 1, Len(s)), c)

\* os.path.join(a, b) for two components
PathJoin(a, b) ==
    IF b # <<>> /\ Head(b) = sep THEN b
    ELSE IF a = <<>> \/ a[Len(a)] = sep THEN a \o b
    ELSE a \o <<sep>> \o b

\* os.path.basename(p): what follows the last separator
basename(p) ==
    LET parts == Split(p, sep) IN parts[Len(parts)]

\* ------------------------------------------------------------ JSON values
Null == [t |-> "null"]
Str(s) == [t |-> "str", v |-> s]
Num(n) == [t |-> "num", v |-> n]
List(n) == [t |-> "list", len |-> n]
Dict(m) == [t |-> "dict", m |-> m]
EmptyDict == [t |-> "dict", m |-> <<>>]

\* Python truth value of a decoded JSON value
Truthy(j) ==
    CASE j.t = "null" -> FALSE
      [] j.t = "str"  -> j.v # <<>>
      [] j.t = "num"  -> j.v # 0
      [] j.t = "list" -> j.len > 0
      [] j.t = "dict" -> DOMAIN j.m # {}
      [] OTHER -> FALSE

\* whether value.get(...) is defined: only a dict has .get
HasGet(j) == j.t = "dict"

\* dict.get(key, default)
Get(d, key, default) ==
    IF key \in DOMAIN d.m THEN d.m[key] ELSE default

\* --------------------------------------------------------- static filters
EXCLUDE_DIRS ==
    { <<".","g","i","t">>,
      <<"n","o","d","e","_","m","o","d","u","l","e","s">>,
      <<"d","i","s","t">>,
      <<"b","u","i","l","d">>,
      <<"v","e","n","v">>,
      <<".","v","e","n","v">>,
      <<"e","n","v">>,
      <<".","e","n","v">>,
      <<"c","o","v","e","r","a","g","e">>,
      <<"l","o","g","s">>,
      <<"_","_","p","y","c","a","c","h","e","_","_">> }

source_extensions ==
    { <<".","p","y">>,
      <<".","j","s">>,
      <<".","j","s","x">>,
      <<".","t","s">>,
      <<".","t","s","x">>,
      <<".","j","a","v","a">>,
      <<".","c","p","p">>,
      <<".","c">>,
      <<".","r","b">>,
      <<".","g","o">>,
      <<".","p","h","p">>,
      <<".","s","w","i","f","t">>,
      <<".","k","t">>,
      <<".","r","s">>,
      <<".","h","t","m","l">>,
      <<".","c","s","s">>,
      <<".","s","c","s","s">>,
      <<".","l","u","a">> }

\* is_source_file(path)
is_source_file(path) ==
    \E ext \in source_extensions : EndsWith(path, ext)

\* mutant of should_exclude: only the first directory below the root is tested
should_exclude_top(path) ==
    LET parts == Split(path, sep)
    IN  Len(parts) >= 2 /\ parts[2] \in EXCLUDE_DIRS

\* should_exclude(path)
should_exclude(path) ==
    LET parts == Split(path, sep)
    IN  \E exclude \in EXCLUDE_DIRS : \E i \in 1..Len(parts) : parts[i] = exclude

\* -------------------------------------------------- the files of the tree
\* The files a walked tree is drawn from: directories below the root, name,
\* and text content.
Catalogue ==
    << [dirs |-> <<>>,
        name |-> <<"a",".","p","y">>, content |-> "print(1)"],
       [dirs |-> << <<"n","o","d","e","_","m","o","d","u","l","e","s">> >>,
        name |-> <<"b",".","j","s">>, content |-> "let b"],
       [dirs |-> <<>>,
        name |-> <<"R","E","A","D","M","E",".","m","d">>, content |-> "# doc"],
       [dirs |-> << <<"l","i","b">> >>,
        name |-> <<"a",".","p","y">>, content |-> "print(2)"],
       [dirs |-> << <<"b","u","i","l","d","s">> >>,
        name |-> <<"c",".","g","o">>, content |-> "package c"],
       [dirs |-> << <<"s","r","c">>, <<".","g","i","t">> >>,
        name |-> <<"e",".","c">>, content |-> "int e;"] >>

FileIds == 1..Len(Catalogue)

RECURSIVE WalkRoot(_)
\* the root os.walk('.') reports for a directory: '.' joined with each name
WalkRoot(dirs) ==
    IF dirs = <<>> THEN <<".">>
    ELSE PathJoin(WalkRoot(SubSeq(dirs, 1, Len(dirs) - 1)), dirs[Len(dirs)])

\* full_path = os.path.join(root, file)
full_path(f) == PathJoin(WalkRoot(Catalogue[f].dirs), Catalogue[f].name)

\* the test of main's loop: the file is passed to review_code
Eligible(f) ==
    ~(should_exclude(full_path(f)) \/ ~is_source_file(full_path(f)))

\* the files of the catalogue that pass the test
EligibleFiles == {f \in FileIds : Eligible(f)}

\* json={'code': code, 'fileName': os.path.basename(file_path)}, per file
RequestBody ==
    [f \in FileIds |-> [file |-> f,
                        code |-> Catalogue[f].content,
                        fileName |-> basename(full_path(f))]]

\* directory d is dir or lies below it
Under(d, dir) == Len(dir) <= Len(d) /\ SubSeq(d, 1, Len(dir)) = dir

\* os.walk is top-down and finishes a directory's subtree before it leaves
\* it: after file last, with the files rest still to come, f can come next
\* when no remaining file sits in a directory above f's, and f lies in the
\* deepest directory on last's path that still has remaining files
WalkNext(f, last, rest) ==
    LET df == Catalogue[f].dirs
        open == {k \in 0..Len(Catalogue[last].dirs) :
                    \E g \in rest :
                        Under(Catalogue[g].dirs, SubSeq(Catalogue[last].dirs, 1, k))}
        deepest == CHOOSE k \in open : \A m \in open : m <= k
    IN  /\ \A g \in rest : ~(Catalogue[g].dirs # df /\ Under(df, Catalogue[g].dirs))
        /\ last # 0 => Under(df, SubSeq(Catalogue[last].dirs, 1, deepest))

\* the file the loop visited last (0: none yet)
LastVisited(v) == IF v = <<>> THEN 0 ELSE v[Len(v)]

\* ------------------------------------------------------ report rendering
NoContentText == <<"No review content available.">>
NoDetailedReview == Str(<<"No detailed review available.">>)
UnknownFile == Str(<<"Unknown File">>)

\* mutant of sanitize_markdown: the underscore is left alone
sanitize_markdown_no_underscore(text) ==
    IF ~Truthy(text) THEN NoContentText
    ELSE Replace(Replace(text.v, "|", <<"\\", "|">>), "*", <<"\\", "*">>)

\* sanitize_markdown(text), for a falsy value or a str
sanitize_markdown(text) ==
    IF ~Truthy(text) THEN NoContentText
    ELSE Replace(Replace(Replace(text.v, "|", <<"\\", "|">>),
                         "*", <<"\\", "*">>),
                 "_", <<"\\", "_">>)

\* sanitize_markdown raises AttributeError: a truthy value without .replace
SanitizeRaises(text) == Truthy(text) /\ text.t # "str"

\* mutant of Section: the two placeholder texts change places
Section_swapped(file_review) ==
    LET review_results == Get(file_review.json, "reviewResults", EmptyDict)
        comprehensive_review ==
            Get(review_results, "comprehensive_review", Str(NoContentText))
    IN  [src |-> file_review.src,
         filename |-> Get(file_review.json, "fileName", UnknownFile),
         body |-> IF ~Truthy(comprehensive_review)
                  THEN NoDetailedReview.v
                  ELSE sanitize_markdown(comprehensive_review)]

\* one subsection of the report, for one accumulated response
Section(file_review) ==
    LET review_results == Get(file_review.json, "reviewResults", EmptyDict)
        comprehensive_review ==
            Get(review_results, "comprehensive_review", NoDetailedReview)
    IN  [src |-> file_review.src,
         filename |-> Get(file_review.json, "fileName", UnknownFile),
         body |-> sanitize_markdown(comprehensive_review)]

\* the comprehension of generate_markdown_report
successful_reviews(rs) == SelectSeq(rs, LAMBDA r : Truthy(r.json))

\* generate_markdown_report raises AttributeError on this list
RenderRaises(rs) ==
    \E i \in 1..Len(rs) :
        /\ Truthy(rs[i].json)
        /\ IF ~HasGet(rs[i].json) THEN TRUE
           ELSE LET review_results ==
                        Get(rs[i].json, "reviewResults", EmptyDict)
                IN  IF ~HasGet(review_results) THEN TRUE
                    ELSE SanitizeRaises(Get(review_results,
                                            "comprehensive_review",
                                            NoDetailedReview))

\* mutant of generate_markdown_report: one subsection per file name, so two
\* responses naming the same file share one
generate_markdown_report_byName(rs) ==
    LET ok == successful_reviews(rs)
        first == SelectSeq([i \in 1..Len(ok) |-> [i |-> i, r |-> ok[i]]],
                           LAMBDA e : \A j \in 1..(e.i - 1) :
                               Get(ok[j].json, "fileName", UnknownFile)
                                   # Get(e.r.json, "fileName", UnknownFile))
    IN  [t |-> "report",
         count |-> Len(ok),
         sections |-> [i \in 1..Len(first) |-> Section(first[i].r)]]

\* generate_markdown_report(reviews): the count line and the subsections
generate_markdown_report(rs) ==
    LET ok == successful_reviews(rs)
    IN  [t |-> "report",
         count |-> Len(ok),
         sections |-> [i \in 1..Len(ok) |-> Section(ok[i])]]

\* ------------------------------------------------- replies to requests.post
ReviewTexts == { <<"o","k">>, <<"a","|","*","_">> }

JsonBodies ==
    { Dict([fileName |-> Str(<<"a",".","p","y">>),
            reviewResults |-> Dict([comprehensive_review |-> Str(x)])])
        : x \in ReviewTexts }
    \cup
    { Dict([fileName |-> Str(<<"a",".","p","y">>),
            reviewResults |-> Dict([comprehensive_review |-> Str(<<>>)])]),
      Dict([fileName |-> Str(<<"a",".","p","y">>),
            reviewResults |-> EmptyDict]),
      Dict([response |-> Str(<<"o","k">>)]),
      Dict([fileName |-> Str(<<"a",".","p","y">>),
            reviewResults |-> Str(<<"o","k">>)]),
      Dict([reviewResults |-> Dict([comprehensive_review |-> Num(5)])]),
      EmptyDict,
      Null,
      List(1) }

ErrorStatuses == {500, 400}
Exceptions == {"Timeout", "ConnectionError"}

\* ------------------------------------------------------------------ state
VARIABLES
    tree,          \* the files of the walked tree
    todo,          \* files os.walk has not yielded yet
    visited,       \* files in the order the loop visited them
    pc,            \* position of the script
    cur,           \* file review_code is working on (0: none)
    outDirExists,  \* the directory 'code-reviews' exists
    opened,        \* files review_code tried to open
    posted,        \* request bodies sent, in order
    inflight,      \* requests.post calls issued and not yet returned
    outcome,       \* what happened to each file
    reviews,       \* main's list of accumulated responses
    stdout,        \* lines printed
    reportFile,    \* content at code-reviews/comprehensive_review.md
    reportFile0,   \* its content before the run
    writes,        \* times the report path was opened for writing
    uncaught,      \* the exception that ended the script ("none": none)
    review_api_url, \* main's review_api_url
    postedTo,      \* the URL of each request sent, in order
    writtenPath    \* the path main opened for writing (<<>>: none)

batchVars == <<tree, todo, visited, pc, cur, outDirExists, opened, posted,
               inflight, outcome, reviews, stdout, reportFile, reportFile0,
               writes, uncaught, review_api_url, postedTo, writtenPath>>

VARIABLES
    sanPc,         \* "in": text chosen; "once", "twice": sanitised so often
    sanText,       \* the review text of the response being rendered
    sanFirst,      \* the text placed in the report
    sanSecond      \* sanitize_markdown applied to sanFirst

sanVars == <<sanPc, sanText, sanFirst, sanSecond>>

VARIABLES
    rPc,           \* "idle" or "calling" (blocked in the outbound POST)
    rReq,          \* the request being served
    rCalls,        \* outbound calls issued for the request being served
    rOutbound,     \* outbound calls issued in all
    rLog           \* served requests: request, upstream reply, response

relayVars == <<rPc, rReq, rCalls, rOutbound, rLog>>

VARIABLES
    step,          \* the workflow step running, from the review step on
    staged,        \* paths the commit step put in the index
    committed,     \* paths in the commit it made
    pushed,        \* the commit was pushed
    gitErrors,     \* git commands of the commit step that failed
    jobFailed      \* the job has failed

jobVars == <<step, staged, committed, pushed, gitErrors, jobFailed>>

VARIABLES
    fePage,        \* the page shown: "home", "results", "error"
    feImpl,        \* the Results component mounted at /results
    feCode,        \* Home's code state
    feFile,        \* Home's file state (0: null)
    feReads,       \* FileReader reads started and not completed, oldest first
    feSelects,     \* files selected so far
    feSubmits,     \* submits of the form so far
    fePosts,       \* bodies POSTed to the relay by the frontend
    feLocState,    \* location.state given to navigate
    feShown        \* what the Results page displays

frontVars == <<fePage, feImpl, feCode, feFile, feReads, feSelects, feSubmits,
               fePosts, feLocState, feShown>>

VARIABLES
    wStep,         \* the workflow step running, up to the review step
    pollI,         \* the loop variable i of the readiness wait
    polls,         \* curl polls of the generation service made so far
    okAt,          \* the number of the poll that succeeded (0: none)
    ollamaUp       \* the generation service answers on its port

waitVars == <<wStep, pollI, polls, okAt, ollamaUp>>

\* what the batch script does not touch
nonBatch == <<sanVars, relayVars, jobVars, frontVars, waitVars>>
\* what rendering one text does not touch
nonSan == <<batchVars, relayVars, jobVars, frontVars, waitVars>>
\* what the relay does not touch
nonRelay == <<batchVars, sanVars, jobVars, frontVars, waitVars>>
\* what the commit step does not touch, the batch script's state apart
nonJob == <<sanVars, relayVars, frontVars, waitVars>>
\* what the frontend does not touch
nonFront == <<batchVars, sanVars, relayVars, jobVars, waitVars>>
\* what the steps before the review step do not touch
nonWait == <<batchVars, sanVars, relayVars, jobVars, frontVars>>

vars == <<batchVars, sanVars, relayVars, jobVars, frontVars, waitVars>>

AbsentFile == [t |-> "absent"]
OldReport == [t |-> "old"]
Truncated == [t |-> "truncated"]

Line(text, f) == [line |-> text, file |-> f]

\* ------------------------------------------------- configuration of main
\* the generation endpoint, which takes {model, prompt, stream}
GenerateUrl == [host |-> "localhost:11434", path |-> "/api/generate"]

\* review_api_url before main assigns it
NoUrl == [host |-> "", path |-> ""]

\* what the step "Create .env File" writes to the file .env
DotEnvFile == [REVIEW_API_URL |-> GenerateUrl]

\* the environment of the step that runs the script: the workflow gives the
\* step no env block, and load_dotenv() is commented out, so the file .env
\* is never read into it
StepEnv == [GITHUB_ACTIONS |-> "true"]

\* os.getenv(key, default)
getenv(env, key, default) ==
    IF key \in DOMAIN env THEN env[key] ELSE default

\* output_dir
output_dir == <<"code-reviews">>

\* report_path = os.path.join(output_dir, 'comprehensive_review.md')
report_path == PathJoin(output_dir, <<"comprehensive_review.md">>)

InitBatch ==
    /\ tree \in {s \in SUBSET FileIds : Cardinality(s) <= MaxFiles}
    /\ todo = tree
    /\ visited = <<>>
    /\ pc = "start"
    /\ cur = 0
    /\ opened = {}
    /\ posted = <<>>
    /\ inflight = 0
    /\ outcome = [f \in FileIds |-> "none"]
    /\ reviews = <<>>
    /\ stdout = <<>>
    /\ reportFile0 \in {AbsentFile, OldReport}
    /\ outDirExists \in BOOLEAN
    /\ reportFile0 = OldReport => outDirExists
    /\ reportFile = reportFile0
    /\ writes = 0
    /\ uncaught = "none"
    /\ review_api_url = NoUrl
    /\ postedTo = <<>>
    /\ writtenPath = <<>>

\* mutant of MakeDirs: the directory is left to whoever writes the report
MakeDirs_lazy ==
    /\ pc = "start"
    /\ pc' = "walk"
    /\ review_api_url' = getenv(StepEnv, "REVIEW_API_URL", GenerateUrl)
    /\ UNCHANGED nonBatch
    /\ UNCHANGED <<uncaught, postedTo, writtenPath>>
    /\ UNCHANGED <<tree, todo, visited, cur, outDirExists, opened, posted,
                   inflight, outcome, reviews, stdout, reportFile, reportFile0,
                   writes>>

\* review_api_url = os.getenv(...); os.makedirs(output_dir, exist_ok=True);
\* reviews = []
MakeDirs ==
    /\ pc = "start"
    /\ outDirExists' = TRUE
    /\ pc' = "walk"
    /\ UNCHANGED nonBatch
    /\ review_api_url' = getenv(StepEnv, "REVIEW_API_URL", GenerateUrl)
    /\ UNCHANGED <<uncaught, postedTo, writtenPath>>
    /\ UNCHANGED <<tree, todo, visited, cur, opened, posted, inflight, outcome,
                   reviews, stdout, reportFile, reportFile0, writes>>

\* the loop yields a file that the filters reject: continue
Skip ==
    /\ pc = "walk"
    /\ \E f \in todo :
        /\ WalkNext(f, LastVisited(visited), todo)
        /\ f \notin EligibleFiles
        /\ todo' = todo \ {f}
        /\ visited' = Append(visited, f)
        /\ outcome' = [outcome EXCEPT ![f] = "skipped"]
    /\ UNCHANGED nonBatch
    /\ UNCHANGED <<uncaught, review_api_url, postedTo, writtenPath>>
    /\ UNCHANGED <<tree, pc, cur, outDirExists, opened, posted, inflight,
                   reviews, stdout, reportFile, reportFile0, writes>>

\* mutant of ReadError: a file that cannot be read is sent with empty code
ReadError_posts ==
    /\ pc = "walk"
    /\ \E f \in todo :
        /\ WalkNext(f, LastVisited(visited), todo)
        /\ f \in EligibleFiles
        /\ todo' = todo \ {f}
        /\ visited' = Append(visited, f)
        /\ opened' = opened \cup {f}
        /\ outcome' = [outcome EXCEPT ![f] = "readerror"]
        /\ posted' = Append(posted, [RequestBody[f] EXCEPT !.code = ""])
        /\ postedTo' = Append(postedTo, review_api_url)
        /\ stdout' = stdout \o <<Line("Reviewing", f), Line("Exception", f)>>
    /\ UNCHANGED nonBatch
    /\ UNCHANGED <<uncaught, review_api_url, writtenPath>>
    /\ UNCHANGED <<tree, pc, cur, outDirExists, inflight, reviews,
                   reportFile, reportFile0, writes>>

\* the loop yields an eligible file, and open() or read() raises in
\* review_code: the except branch prints and returns None
ReadError ==
    /\ pc = "walk"
    /\ \E f \in todo :
        /\ WalkNext(f, LastVisited(visited), todo)
        /\ f \in EligibleFiles
        /\ todo' = todo \ {f}
        /\ visited' = Append(visited, f)
        /\ opened' = opened \cup {f}
        /\ outcome' = [outcome EXCEPT ![f] = "readerror"]
        /\ stdout' = stdout \o <<Line("Reviewing", f), Line("Exception", f)>>
    /\ UNCHANGED nonBatch
    /\ UNCHANGED <<uncaught, review_api_url, postedTo, writtenPath>>
    /\ UNCHANGED <<tree, pc, cur, outDirExists, posted, inflight, reviews,
                   reportFile, reportFile0, writes>>

\* mutant of Post: the call is issued and the loop goes on without waiting
Post_async ==
    /\ pc = "walk"
    /\ \E f \in todo :
        /\ WalkNext(f, LastVisited(visited), todo)
        /\ f \in EligibleFiles
        /\ todo' = todo \ {f}
        /\ visited' = Append(visited, f)
        /\ opened' = opened \cup {f}
        /\ cur' = f
        /\ posted' = Append(posted, RequestBody[f])
        /\ inflight' = inflight + 1
        /\ stdout' = Append(stdout, Line("Reviewing", f))
    /\ UNCHANGED nonBatch
    /\ postedTo' = Append(postedTo, review_api_url)
    /\ UNCHANGED <<uncaught, review_api_url, writtenPath>>
    /\ UNCHANGED <<tree, pc, outDirExists, outcome, reviews, reportFile,
                   reportFile0, writes>>

\* mutant of Post: once a review is held, the text sent is a cached one
Post_stateful ==
    /\ pc = "walk"
    /\ \E f \in todo :
        /\ WalkNext(f, LastVisited(visited), todo)
        /\ f \in EligibleFiles
        /\ todo' = todo \ {f}
        /\ visited' = Append(visited, f)
        /\ opened' = opened \cup {f}
        /\ cur' = f
        /\ posted' = Append(posted,
                            IF reviews = <<>> THEN RequestBody[f]
                            ELSE [RequestBody[f] EXCEPT !.code = "cached"])
        /\ inflight' = inflight + 1
        /\ stdout' = Append(stdout, Line("Reviewing", f))
    /\ pc' = "await"
    /\ postedTo' = Append(postedTo, review_api_url)
    /\ UNCHANGED nonBatch
    /\ UNCHANGED <<uncaught, review_api_url, writtenPath>>
    /\ UNCHANGED <<tree, outDirExists, outcome, reviews, reportFile,
                   reportFile0, writes>>

\* mutant of Post: fileName carries the whole path of the file
Post_fullPath ==
    /\ pc = "walk"
    /\ \E f \in todo :
        /\ WalkNext(f, LastVisited(visited), todo)
        /\ f \in EligibleFiles
        /\ todo' = todo \ {f}
        /\ visited' = Append(visited, f)
        /\ opened' = opened \cup {f}
        /\ cur' = f
        /\ posted' = Append(posted,
                            [RequestBody[f] EXCEPT !.fileName = full_path(f)])
        /\ inflight' = inflight + 1
        /\ stdout' = Append(stdout, Line("Reviewing", f))
    /\ pc' = "await"
    /\ postedTo' = Append(postedTo, review_api_url)
    /\ UNCHANGED nonBatch
    /\ UNCHANGED <<uncaught, review_api_url, writtenPath>>
    /\ UNCHANGED <<tree, outDirExists, outcome, reviews, reportFile,
                   reportFile0, writes>>

\* the loop yields an eligible file; review_code reads it and issues
\* requests.post, which blocks
Post ==
    /\ pc = "walk"
    /\ \E f \in todo :
        /\ WalkNext(f, LastVisited(visited), todo)
        /\ f \in EligibleFiles
        /\ todo' = todo \ {f}
        /\ visited' = Append(visited, f)
        /\ opened' = opened \cup {f}
        /\ cur' = f
        /\ posted' = Append(posted, RequestBody[f])
        /\ inflight' = inflight + 1
        /\ stdout' = Append(stdout, Line("Reviewing", f))
    /\ pc' = "await"
    /\ UNCHANGED nonBatch
    /\ postedTo' = Append(postedTo, review_api_url)
    /\ UNCHANGED <<uncaught, review_api_url, writtenPath>>
    /\ UNCHANGED <<tree, outDirExists, outcome, reviews, reportFile,
                   reportFile0, writes>>

\* mutant of ReturnError: the body of a failed call is accumulated
ReturnError_kept ==
    /\ pc = "await"
    /\ inflight > 0
    /\ \E s \in ErrorStatuses :
        /\ outcome' = [outcome EXCEPT ![cur] = "non200"]
        /\ stdout' = Append(stdout, Line("Error", cur))
        /\ reviews' = Append(reviews,
                             [src |-> cur, json |-> Dict([error |-> Num(s)])])
    /\ inflight' = inflight - 1
    /\ cur' = 0
    /\ pc' = "walk"
    /\ UNCHANGED nonBatch
    /\ UNCHANGED <<uncaught, review_api_url, postedTo, writtenPath>>
    /\ UNCHANGED <<tree, todo, visited, outDirExists, opened, posted,
                   reportFile, reportFile0, writes>>

\* mutant of ReturnError: a failed call ends the walk
ReturnError_abort ==
    /\ pc = "await"
    /\ inflight > 0
    /\ \E s \in ErrorStatuses :
        /\ outcome' = [outcome EXCEPT ![cur] = "non200"]
        /\ stdout' = Append(stdout, Line("Error", cur))
    /\ inflight' = inflight - 1
    /\ cur' = 0
    /\ todo' = {}
    /\ pc' = "walk"
    /\ UNCHANGED nonBatch
    /\ UNCHANGED <<uncaught, review_api_url, postedTo, writtenPath>>
    /\ UNCHANGED <<tree, visited, outDirExists, opened, posted, reviews,
                   reportFile, reportFile0, writes>>

\* requests.post returns a status other than 200: review_code prints the
\* body and returns None, which main does not append
ReturnError ==
    /\ pc = "await"
    /\ inflight > 0
    /\ \E s \in ErrorStatuses :
        /\ outcome' = [outcome EXCEPT ![cur] = "non200"]
        /\ stdout' = Append(stdout, Line("Error", cur))
    /\ inflight' = inflight - 1
    /\ cur' = 0
    /\ pc' = "walk"
    /\ UNCHANGED nonBatch
    /\ UNCHANGED <<uncaught, review_api_url, postedTo, writtenPath>>
    /\ UNCHANGED <<tree, todo, visited, outDirExists, opened, posted, reviews,
                   reportFile, reportFile0, writes>>

\* mutant of ReturnException: after an exception the call is issued again
ReturnException_retry ==
    /\ pc = "await"
    /\ inflight > 0
    /\ Cardinality({i \in 1..Len(posted) : posted[i].file = cur}) < 2
    /\ posted' = Append(posted, RequestBody[cur])
    /\ postedTo' = Append(postedTo, review_api_url)
    /\ UNCHANGED nonBatch
    /\ UNCHANGED <<uncaught, review_api_url, writtenPath>>
    /\ UNCHANGED <<tree, todo, visited, pc, cur, outDirExists, opened,
                   inflight, outcome, reviews, stdout, reportFile, reportFile0,
                   writes>>

\* mutant of ReturnException: a file whose call raised is put back to be
\* visited once more
ReturnException_requeue ==
    /\ pc = "await"
    /\ inflight > 0
    /\ \E e \in Exceptions \cup {"JSONDecodeError"} :
        /\ outcome' = [outcome EXCEPT ![cur] =
                          IF e = "Timeout" THEN "timeout" ELSE "exception"]
        /\ stdout' = Append(stdout, Line("Exception", cur))
    /\ todo' = IF Cardinality({i \in 1..Len(visited) : visited[i] = cur}) < 2
               THEN todo \cup {cur} ELSE todo
    /\ inflight' = inflight - 1
    /\ cur' = 0
    /\ pc' = "walk"
    /\ UNCHANGED nonBatch
    /\ UNCHANGED <<uncaught, review_api_url, postedTo, writtenPath>>
    /\ UNCHANGED <<tree, visited, outDirExists, opened, posted, reviews,
                   reportFile, reportFile0, writes>>

\* requests.post raises (timeout after 300 s, connection error), or it
\* returns 200 and response.json() raises: the except branch prints and
\* returns None
ReturnException ==
    /\ pc = "await"
    /\ inflight > 0
    /\ \E e \in Exceptions \cup {"JSONDecodeError"} :
        /\ outcome' = [outcome EXCEPT ![cur] =
                          IF e = "Timeout" THEN "timeout" ELSE "exception"]
        /\ stdout' = Append(stdout, Line("Exception", cur))
    /\ inflight' = inflight - 1
    /\ cur' = 0
    /\ pc' = "walk"
    /\ UNCHANGED nonBatch
    /\ UNCHANGED <<uncaught, review_api_url, postedTo, writtenPath>>
    /\ UNCHANGED <<tree, todo, visited, outDirExists, opened, posted, reviews,
                   reportFile, reportFile0, writes>>

\* mutant of ReturnJson: the newest response is put at the head of the list
ReturnJson_prepend ==
    /\ pc = "await"
    /\ inflight > 0
    /\ \E review \in JsonBodies :
        /\ outcome' = [outcome EXCEPT ![cur] =
                          IF Truthy(review) THEN "reviewed" ELSE "falsy200"]
        /\ reviews' = IF Truthy(review)
                      THEN <<[src |-> cur, json |-> review]>> \o reviews
                      ELSE reviews
    /\ inflight' = inflight - 1
    /\ cur' = 0
    /\ pc' = "walk"
    /\ UNCHANGED nonBatch
    /\ UNCHANGED <<uncaught, review_api_url, postedTo, writtenPath>>
    /\ UNCHANGED <<tree, todo, visited, outDirExists, opened, posted, stdout,
                   reportFile, reportFile0, writes>>

\* requests.post returns 200 and the body decodes: review_code returns it,
\* and main appends it when it is truthy
ReturnJson ==
    /\ pc = "await"
    /\ inflight > 0
    /\ \E review \in JsonBodies :
        /\ outcome' = [outcome EXCEPT ![cur] =
                          IF Truthy(review) THEN "reviewed" ELSE "falsy200"]
        /\ reviews' = IF Truthy(review)
                      THEN Append(reviews, [src |-> cur, json |-> review])
                      ELSE reviews
    /\ inflight' = inflight - 1
    /\ cur' = 0
    /\ pc' = "walk"
    /\ UNCHANGED nonBatch
    /\ UNCHANGED <<uncaught, review_api_url, postedTo, writtenPath>>
    /\ UNCHANGED <<tree, todo, visited, outDirExists, opened, posted, stdout,
                   reportFile, reportFile0, writes>>

\* mutant of NoReport: the report is written whatever was accumulated
NoReport_writes ==
    /\ pc = "walk"
    /\ todo = {}
    /\ reviews = <<>>
    /\ reportFile' = generate_markdown_report(reviews)
    /\ writes' = writes + 1
    /\ stdout' = Append(stdout, Line("Code review report generated", 0))
    /\ pc' = "done"
    /\ UNCHANGED nonBatch
    /\ writtenPath' = report_path
    /\ UNCHANGED <<uncaught, review_api_url, postedTo>>
    /\ UNCHANGED <<tree, todo, visited, cur, outDirExists, opened, posted,
                   inflight, outcome, reviews, reportFile0>>

\* the walk is over and reviews is empty: the else branch prints only
NoReport ==
    /\ pc = "walk"
    /\ todo = {}
    /\ reviews = <<>>
    /\ stdout' = Append(stdout, Line("No source code files found or reviewed.", 0))
    /\ pc' = "done"
    /\ UNCHANGED nonBatch
    /\ UNCHANGED <<uncaught, review_api_url, postedTo, writtenPath>>
    /\ UNCHANGED <<tree, todo, visited, cur, outDirExists, opened, posted,
                   inflight, outcome, reviews, reportFile, reportFile0, writes>>

\* mutant of WriteReport: the report is rewritten as the walk goes
WriteReport_early ==
    /\ pc = "walk"
    /\ reviews # <<>>
    /\ ~RenderRaises(reviews)
    /\ writes < 2
    /\ reportFile' = generate_markdown_report(reviews)
    /\ writes' = writes + 1
    /\ writtenPath' = report_path
    /\ pc' = IF todo = {} THEN "done" ELSE "walk"
    /\ UNCHANGED nonBatch
    /\ UNCHANGED <<uncaught, review_api_url, postedTo>>
    /\ UNCHANGED <<tree, todo, visited, cur, outDirExists, opened, posted,
                   inflight, outcome, reviews, stdout, reportFile0>>

\* the walk is over, reviews is not empty, the report renders and is written
WriteReport ==
    /\ pc = "walk"
    /\ todo = {}
    /\ reviews # <<>>
    /\ ~RenderRaises(reviews)
    /\ reportFile' = generate_markdown_report(reviews)
    /\ writes' = writes + 1
    /\ stdout' = Append(stdout, Line("Code review report generated", 0))
    /\ pc' = "done"
    /\ UNCHANGED nonBatch
    /\ writtenPath' = report_path
    /\ UNCHANGED <<uncaught, review_api_url, postedTo>>
    /\ UNCHANGED <<tree, todo, visited, cur, outDirExists, opened, posted,
                   inflight, outcome, reviews, reportFile0>>

\* the walk is over, reviews is not empty, and generate_markdown_report
\* raises: nothing catches it and the script ends with a traceback
RenderCrash ==
    /\ pc = "walk"
    /\ todo = {}
    /\ reviews # <<>>
    /\ RenderRaises(reviews)
    /\ pc' = "crashed"
    /\ UNCHANGED nonBatch
    /\ uncaught' = "AttributeError"
    /\ UNCHANGED <<review_api_url, postedTo, writtenPath>>
    /\ UNCHANGED <<tree, todo, visited, cur, outDirExists, opened, posted,
                   inflight, outcome, reviews, stdout, reportFile, reportFile0,
                   writes>>

\* the report renders but open(report_path, 'w') or f.write raises: the
\* script ends; the file is untouched (open failed) or truncated
WriteFail ==
    /\ pc = "walk"
    /\ todo = {}
    /\ reviews # <<>>
    /\ ~RenderRaises(reviews)
    /\ \E wasOpened \in BOOLEAN :
        /\ reportFile' = IF wasOpened THEN Truncated ELSE reportFile
        /\ writtenPath' = IF wasOpened THEN report_path ELSE writtenPath
        /\ writes' = IF wasOpened THEN writes + 1 ELSE writes
    /\ pc' = "crashed"
    /\ UNCHANGED nonBatch
    /\ uncaught' = "OSError"
    /\ UNCHANGED <<review_api_url, postedTo>>
    /\ UNCHANGED <<tree, todo, visited, cur, outDirExists, opened, posted,
                   inflight, outcome, reviews, stdout, reportFile0>>

NextBatch ==
    \/ MakeDirs
    \/ Skip
    \/ ReadError
    \/ Post
    \/ ReturnError
    \/ ReturnException
    \/ ReturnJson
    \/ NoReport
    \/ WriteReport
    \/ RenderCrash
    \/ WriteFail

\* the batch script is not running
IdleBatch ==
    /\ tree = {}
    /\ todo = {}
    /\ visited = <<>>
    /\ pc = "off"
    /\ cur = 0
    /\ outDirExists = FALSE
    /\ opened = {}
    /\ posted = <<>>
    /\ inflight = 0
    /\ outcome = [f \in FileIds |-> "none"]
    /\ reviews = <<>>
    /\ stdout = <<>>
    /\ reportFile0 = AbsentFile
    /\ reportFile = AbsentFile
    /\ writes = 0
    /\ uncaught = "none"
    /\ review_api_url = NoUrl
    /\ postedTo = <<>>
    /\ writtenPath = <<>>

\* ------------------------------------- sanitize_markdown on bounded texts
Alphabet == {"|", "*", "_", "\\", "a"}

\* the texts of at most n characters
Texts(n) == UNION {[1..k -> Alphabet] : k \in 0..n}

IdleSan ==
    /\ sanPc = "off"
    /\ sanText = Str(<<>>)
    /\ sanFirst = <<>>
    /\ sanSecond = <<>>

InitSan ==
    /\ sanPc = "in"
    /\ sanText \in {Str(s) : s \in Texts(MaxLen)}
    /\ sanFirst = <<>>
    /\ sanSecond = <<>>

\* generate_markdown_report on one response holding the text: the body of
\* its subsection is what sanitize_markdown returns
RenderText ==
    /\ sanPc = "in"
    /\ LET response == Dict([fileName |-> Str(<<"a",".","p","y">>),
                             reviewResults |->
                                 Dict([comprehensive_review |-> sanText])])
           report == generate_markdown_report(<<[src |-> 0, json |-> response]>>)
       IN  sanFirst' = report.sections[1].body
    /\ sanPc' = "once"
    /\ UNCHANGED <<sanText, sanSecond>>
    /\ UNCHANGED nonSan

\* sanitize_markdown applied to its own result
SanitizeAgain ==
    /\ sanPc = "once"
    /\ sanSecond' = sanitize_markdown(Str(sanFirst))
    /\ sanPc' = "twice"
    /\ UNCHANGED <<sanText, sanFirst>>
    /\ UNCHANGED nonSan

NextSan ==
    \/ RenderText
    \/ SanitizeAgain

\* ------------------------------------------------ the Request Relay (4.1)
\* values a request field can carry
FieldValues == {Str(<<"x">>), Str(<<"y">>)}

\* the POST /api/review bodies: any subset of the two fields present
RelayRequests ==
    {Dict(m) : m \in UNION {[K -> FieldValues] : K \in SUBSET {"code", "fileName"}}}

NoReply == [kind |-> "none", status |-> 0, body |-> Null]

\* what the generation endpoint can answer
UpstreamOkReplies ==
    {[kind |-> "http", status |-> 200, body |-> Dict([response |-> Str(x)])]
        : x \in ReviewTexts}
UpstreamErrorReplies ==
    {[kind |-> "http", status |-> st, body |-> Str(<<"error">>)]
        : st \in ErrorStatuses}
UpstreamRaises ==
    {[kind |-> "raise", status |-> 0, body |-> Str(<<e>>)]
        : e \in Exceptions \cup {"JSONDecodeError"}}

\* mutant of RelayInvalid: only code is required
RelayInvalid_codeOnly(req) ==
    "code" \notin DOMAIN req.m

\* the request misses code or fileName
RelayInvalid(req) ==
    ~({"code", "fileName"} \subseteq DOMAIN req.m)

InvalidInput == [kind |-> "InvalidInput", body |-> Dict([error |-> Str(<<"missing">>)])]

\* mutant of RelayResponse: the file name of the request is not echoed
RelayResponse_noName(req, up) ==
    IF up.kind = "http" /\ up.status = 200
    THEN [kind |-> "ok",
          body |-> Dict([fileName |-> Str(<<"unknown">>),
                         reviewResults |->
                             Dict([comprehensive_review |-> up.body.m.response])])]
    ELSE [kind |-> "UpstreamError", body |-> Dict([error |-> up.body])]

\* the relay's answer to a valid request, given the upstream reply
RelayResponse(req, up) ==
    IF up.kind = "http" /\ up.status = 200
    THEN [kind |-> "ok",
          body |-> Dict([fileName |-> req.m.fileName,
                         reviewResults |->
                             Dict([comprehensive_review |-> up.body.m.response])])]
    ELSE [kind |-> "UpstreamError", body |-> Dict([error |-> up.body])]

InitRelay ==
    /\ rPc = "idle"
    /\ rReq = EmptyDict
    /\ rCalls = 0
    /\ rOutbound = 0
    /\ rLog = <<>>

IdleRelay ==
    /\ rPc = "off"
    /\ rReq = EmptyDict
    /\ rCalls = 0
    /\ rOutbound = 0
    /\ rLog = <<>>

\* a request without code or fileName: InvalidInput, nothing sent
RelayReject ==
    /\ rPc = "idle"
    /\ Len(rLog) < MaxRequests
    /\ \E req \in RelayRequests :
        /\ RelayInvalid(req)
        /\ rLog' = Append(rLog, [req |-> req, up |-> NoReply,
                                 resp |-> InvalidInput, calls |-> 0])
    /\ UNCHANGED <<rPc, rReq, rCalls, rOutbound>>
    /\ UNCHANGED nonRelay

\* a request with both fields: the prompt is built and the one blocking
\* POST to the generation endpoint is issued
RelayAccept ==
    /\ rPc = "idle"
    /\ Len(rLog) < MaxRequests
    /\ \E req \in RelayRequests :
        /\ ~RelayInvalid(req)
        /\ rReq' = req
    /\ rCalls' = 1
    /\ rOutbound' = rOutbound + 1
    /\ rPc' = "calling"
    /\ UNCHANGED rLog
    /\ UNCHANGED nonRelay

\* the generation endpoint answers 200 with {"response": X}
RelayUpstreamOk ==
    /\ rPc = "calling"
    /\ \E up \in UpstreamOkReplies :
        rLog' = Append(rLog, [req |-> rReq, up |-> up,
                              resp |-> RelayResponse(rReq, up),
                              calls |-> rCalls])
    /\ rPc' = "idle"
    /\ rCalls' = 0
    /\ UNCHANGED <<rReq, rOutbound>>
    /\ UNCHANGED nonRelay

\* the generation endpoint answers with another status
RelayUpstreamNon200 ==
    /\ rPc = "calling"
    /\ \E up \in UpstreamErrorReplies :
        rLog' = Append(rLog, [req |-> rReq, up |-> up,
                              resp |-> RelayResponse(rReq, up),
                              calls |-> rCalls])
    /\ rPc' = "idle"
    /\ rCalls' = 0
    /\ UNCHANGED <<rReq, rOutbound>>
    /\ UNCHANGED nonRelay

\* mutant of RelayUpstreamRaise: the call is tried once more
RelayUpstreamRaise_retry ==
    /\ rPc = "calling"
    /\ rCalls < 2
    /\ rCalls' = rCalls + 1
    /\ rOutbound' = rOutbound + 1
    /\ UNCHANGED <<rPc, rReq, rLog>>
    /\ UNCHANGED nonRelay

\* the outbound call raises (timeout, connection refused, malformed JSON)
RelayUpstreamRaise ==
    /\ rPc = "calling"
    /\ \E up \in UpstreamRaises :
        rLog' = Append(rLog, [req |-> rReq, up |-> up,
                              resp |-> RelayResponse(rReq, up),
                              calls |-> rCalls])
    /\ rPc' = "idle"
    /\ rCalls' = 0
    /\ UNCHANGED <<rReq, rOutbound>>
    /\ UNCHANGED nonRelay

NextRelay ==
    \/ RelayReject
    \/ RelayAccept
    \/ RelayUpstreamOk
    \/ RelayUpstreamNon200
    \/ RelayUpstreamRaise

\* ------------------------------------- the step "Commit Review Results"
\* largest tree the whole job is run on
MaxJobFiles == 2

\* the path given to git add
GitAddPath == <<"code-reviews", "/", "comprehensive_review.md">>

\* the file the step "Create .env File" leaves in the work tree
DotEnvPath == <<".env">>

IdleJob ==
    /\ step = "off"
    /\ staged = {}
    /\ committed = {}
    /\ pushed = FALSE
    /\ gitErrors = {}
    /\ jobFailed = FALSE

\* the review step is running
InitJob ==
    /\ step = "review"
    /\ staged = {}
    /\ committed = {}
    /\ pushed = FALSE
    /\ gitErrors = {}
    /\ jobFailed = FALSE

\* the script ended with a traceback: the step fails, and the commit step,
\* which has no condition of its own, is skipped
ReviewStepFails ==
    /\ step = "review"
    /\ pc = "crashed"
    /\ jobFailed' = TRUE
    /\ step' = "skipped"
    /\ UNCHANGED <<staged, committed, pushed, gitErrors>>
    /\ UNCHANGED batchVars
    /\ UNCHANGED nonJob

\* the script ended normally; the commit step runs mkdir -p code-reviews
\* and the two git config commands
CommitStart ==
    /\ step = "review"
    /\ pc = "done"
    /\ outDirExists' = TRUE
    /\ step' = "add"
    /\ UNCHANGED <<staged, committed, pushed, gitErrors, jobFailed>>
    /\ UNCHANGED <<tree, todo, visited, pc, cur, opened, posted, inflight,
                   outcome, reviews, stdout, reportFile, reportFile0, writes,
                   uncaught, review_api_url, postedTo, writtenPath>>
    /\ UNCHANGED nonJob

\* mutant of GitAdd: git add . stages all that is new in the work tree
GitAdd_all ==
    /\ step = "add"
    /\ staged' = {DotEnvPath} \cup
                 (IF reportFile # AbsentFile /\ reportFile # reportFile0
                  THEN {GitAddPath} ELSE {})
    /\ step' = "commit"
    /\ UNCHANGED <<committed, pushed, gitErrors, jobFailed>>
    /\ UNCHANGED batchVars
    /\ UNCHANGED nonJob

\* git add code-reviews/comprehensive_review.md || true: it fails when the
\* file does not exist, and may fail otherwise; it stages the file when its
\* content differs from the committed one
GitAdd ==
    /\ step = "add"
    /\ \E ok \in BOOLEAN :
        /\ ok => reportFile # AbsentFile
        /\ staged' = IF ok /\ reportFile # reportFile0 THEN {GitAddPath} ELSE {}
        /\ gitErrors' = IF ok THEN gitErrors ELSE gitErrors \cup {"add"}
    /\ step' = "commit"
    /\ UNCHANGED <<committed, pushed, jobFailed>>
    /\ UNCHANGED batchVars
    /\ UNCHANGED nonJob

\* git commit -m "Add AI Code Review Report" || true: it fails when nothing
\* is staged, and may fail otherwise
GitCommit ==
    /\ step = "commit"
    /\ \E ok \in BOOLEAN :
        /\ ok => staged # {}
        /\ committed' = IF ok THEN staged ELSE {}
        /\ gitErrors' = IF ok THEN gitErrors ELSE gitErrors \cup {"commit"}
    /\ step' = "push"
    /\ UNCHANGED <<staged, pushed, jobFailed>>
    /\ UNCHANGED batchVars
    /\ UNCHANGED nonJob

\* git push || true
GitPush ==
    /\ step = "push"
    /\ \E ok \in BOOLEAN :
        /\ pushed' = (ok /\ committed # {})
        /\ gitErrors' = IF ok THEN gitErrors ELSE gitErrors \cup {"push"}
    /\ step' = "end"
    /\ UNCHANGED <<staged, committed, jobFailed>>
    /\ UNCHANGED batchVars
    /\ UNCHANGED nonJob

NextCommit ==
    \/ ReviewStepFails
    \/ CommitStart
    \/ GitAdd
    \/ GitCommit
    \/ GitPush

\* ------------------------------------------------ the frontend (Home form)
\* most file selections in one behaviour
MaxSelects == 2

\* texts typed into the textarea
TypedCodes == {"", "typed"}

\* the files the user can pick, with their text
UploadFiles == {1, 2}
UploadText == [f \in UploadFiles |-> IF f = 1 THEN "text of A" ELSE "text of B"]

NotShown == [t |-> "none"]

IdleFront ==
    /\ fePage = "off"
    /\ feImpl = "static"
    /\ feCode = ""
    /\ feFile = 0
    /\ feReads = <<>>
    /\ feSelects = 0
    /\ feSubmits = 0
    /\ fePosts = <<>>
    /\ feLocState = <<>>
    /\ feShown = NotShown

\* Home mounted: useState('') and useState(null); /results is served by
\* Results.tsx (fixed analysisResults) or by the variant that reads apiResult
InitFront ==
    /\ fePage = "home"
    /\ feImpl \in {"static", "apiResult"}
    /\ feCode = ""
    /\ feFile = 0
    /\ feReads = <<>>
    /\ feSelects = 0
    /\ feSubmits = 0
    /\ fePosts = <<>>
    /\ feLocState = <<>>
    /\ feShown = NotShown

\* the textarea's onChange: setCode(e.target.value)
TypeCode ==
    /\ fePage = "home"
    /\ \E c \in TypedCodes : feCode' = c
    /\ UNCHANGED <<fePage, feImpl, feFile, feReads, feSelects, feSubmits,
                   fePosts, feLocState, feShown>>
    /\ UNCHANGED nonFront

\* handleFileChange: setFile(files[0]); a new FileReader starts readAsText
SelectFile ==
    /\ fePage = "home"
    /\ feSelects < MaxSelects
    /\ \E f \in UploadFiles :
        /\ feFile' = f
        /\ feReads' = Append(feReads, f)
    /\ feSelects' = feSelects + 1
    /\ UNCHANGED <<fePage, feImpl, feCode, feSubmits, fePosts, feLocState,
                   feShown>>
    /\ UNCHANGED nonFront

\* reader.onload of one of the started reads, in any order: setCode(result)
ReadDone ==
    /\ fePage = "home"
    /\ \E i \in 1..Len(feReads) :
        /\ feCode' = UploadText[feReads[i]]
        /\ feReads' = SubSeq(feReads, 1, i - 1) \o
                      SubSeq(feReads, i + 1, Len(feReads))
    /\ UNCHANGED <<fePage, feImpl, feFile, feSelects, feSubmits, fePosts,
                   feLocState, feShown>>
    /\ UNCHANGED nonFront

\* handleSubmit: preventDefault(); navigate('/results', {state: {code}})
Submit ==
    /\ fePage = "home"
    /\ feLocState' = [code |-> feCode]
    /\ feSubmits' = feSubmits + 1
    /\ fePage' = "results"
    /\ UNCHANGED <<feImpl, feCode, feFile, feReads, feSelects, fePosts,
                   feShown>>
    /\ UNCHANGED nonFront

\* Results.tsx renders: the code of location.state and the fixed
\* analysisResults
RenderStatic ==
    /\ fePage = "results"
    /\ feImpl = "static"
    /\ feShown = NotShown
    /\ feShown' = [t |-> "shown", code |-> feLocState.code,
                   origin |-> "analysisResults"]
    /\ UNCHANGED <<fePage, feImpl, feCode, feFile, feReads, feSelects,
                   feSubmits, fePosts, feLocState>>
    /\ UNCHANGED nonFront

\* the other Results renders: it reads apiResult.fileName from
\* location.state, which throws when apiResult is undefined
RenderApiResult ==
    /\ fePage = "results"
    /\ feImpl = "apiResult"
    /\ feShown = NotShown
    /\ IF "apiResult" \in DOMAIN feLocState
       THEN /\ feShown' = [t |-> "shown", code |-> feLocState.code,
                           origin |-> "apiResult"]
            /\ fePage' = fePage
       ELSE /\ feShown' = [t |-> "TypeError"]
            /\ fePage' = "error"
    /\ UNCHANGED <<feImpl, feCode, feFile, feReads, feSelects, feSubmits,
                   fePosts, feLocState>>
    /\ UNCHANGED nonFront

NextFront ==
    \/ TypeCode
    \/ SelectFile
    \/ ReadDone
    \/ Submit
    \/ RenderStatic
    \/ RenderApiResult

\* ------------------------------ the workflow steps before the review step
\* for i in {1..30}
PollLimit == 30

IdleWait ==
    /\ wStep = "off"
    /\ pollI = 0
    /\ polls = 0
    /\ okAt = 0
    /\ ollamaUp = FALSE

\* the step "Install Ollama" begins; the service is not installed yet
InitWait ==
    /\ wStep = "install"
    /\ pollI = 0
    /\ polls = 0
    /\ okAt = 0
    /\ ollamaUp = FALSE

\* curl ... | sh; systemctl enable ollama; systemctl start ollama: the step
\* runs under bash -e, so a failing command ends it and fails the job;
\* otherwise the loop begins with i = 1
InstallOllama ==
    /\ wStep = "install"
    /\ \E ok \in BOOLEAN :
        /\ wStep' = IF ok THEN "wait" ELSE "failed"
        /\ pollI' = IF ok THEN 1 ELSE pollI
    /\ UNCHANGED <<polls, okAt, ollamaUp>>
    /\ UNCHANGED nonWait

\* the started service begins to answer on port 11434, at a time of its own
OllamaComesUp ==
    /\ wStep \in {"wait", "pull"}
    /\ ~ollamaUp
    /\ ollamaUp' = TRUE
    /\ UNCHANGED <<wStep, pollI, polls, okAt>>
    /\ UNCHANGED nonWait

\* if curl -s http://localhost:11434 > /dev/null succeeds: echo; break.
\* The for loop was the step's last command, so the next step begins
PollOk ==
    /\ wStep = "wait"
    /\ pollI <= PollLimit
    /\ ollamaUp
    /\ polls' = polls + 1
    /\ okAt' = polls + 1
    /\ wStep' = "pull"
    /\ UNCHANGED <<pollI, ollamaUp>>
    /\ UNCHANGED nonWait

\* curl fails: sleep 2 and the next i; after i = 30 the loop is over with
\* the status of sleep, which is 0, and the next step begins
PollFail ==
    /\ wStep = "wait"
    /\ pollI <= PollLimit
    /\ ~ollamaUp
    /\ polls' = polls + 1
    /\ pollI' = pollI + 1
    /\ wStep' = IF pollI = PollLimit THEN "pull" ELSE "wait"
    /\ UNCHANGED <<okAt, ollamaUp>>
    /\ UNCHANGED nonWait

\* ollama pull llama3.2:latest: it needs the service, and may fail otherwise
PullModel ==
    /\ wStep = "pull"
    /\ \E ok \in BOOLEAN :
        /\ ok => ollamaUp
        /\ wStep' = IF ok THEN "env" ELSE "failed"
    /\ UNCHANGED <<pollI, polls, okAt, ollamaUp>>
    /\ UNCHANGED nonWait

\* the two echo commands that write .env
CreateEnvFile ==
    /\ wStep = "env"
    /\ wStep' = "deps"
    /\ UNCHANGED <<pollI, polls, okAt, ollamaUp>>
    /\ UNCHANGED nonWait

\* pip install --upgrade pip; pip install requests flask ...
InstallDependencies ==
    /\ wStep = "deps"
    /\ \E ok \in BOOLEAN : wStep' = IF ok THEN "backend" ELSE "failed"
    /\ UNCHANGED <<pollI, polls, okAt, ollamaUp>>
    /\ UNCHANGED nonWait

\* cd backend; pip install -r requirements.txt; python main.py &; sleep 10:
\* only cd and pip can fail the step; then the review step begins
SetUpBackend ==
    /\ wStep = "backend"
    /\ \E ok \in BOOLEAN : wStep' = IF ok THEN "review" ELSE "failed"
    /\ UNCHANGED <<pollI, polls, okAt, ollamaUp>>
    /\ UNCHANGED nonWait

NextWait ==
    \/ InstallOllama
    \/ OllamaComesUp
    \/ PollOk
    \/ PollFail
    \/ PullModel
    \/ CreateEnvFile
    \/ InstallDependencies
    \/ SetUpBackend

\* ---------------------------------------------------------- specifications
Init == InitBatch /\ IdleSan /\ IdleRelay /\ IdleJob /\ IdleFront /\ IdleWait

Next == NextBatch

Spec == Init /\ [][Next]_vars

\* one text rendered, nothing else running
InitSanOnly ==
    IdleBatch /\ InitSan /\ IdleRelay /\ IdleJob /\ IdleFront /\ IdleWait

SpecSan == InitSanOnly /\ [][NextSan]_vars

\* the relay serving requests, nothing else running
InitRelayOnly ==
    IdleBatch /\ IdleSan /\ InitRelay /\ IdleJob /\ IdleFront /\ IdleWait

SpecRelay == InitRelayOnly /\ [][NextRelay]_vars

\* the job from the review step on, over a tree of at most MaxJobFiles files
InitJobOnly ==
    /\ InitBatch
    /\ Cardinality(tree) <= MaxJobFiles
    /\ IdleSan /\ IdleRelay /\ InitJob /\ IdleFront /\ IdleWait

NextJob ==
    \/ NextBatch
    \/ NextCommit

SpecJob == InitJobOnly /\ [][NextJob]_vars

\* the Home form and the Results page, nothing else running
InitFrontOnly ==
    IdleBatch /\ IdleSan /\ IdleRelay /\ IdleJob /\ InitFront /\ IdleWait

SpecFront == InitFrontOnly /\ [][NextFront]_vars

\* the job's steps from "Install Ollama" to the start of the review step
InitWaitOnly ==
    IdleBatch /\ IdleSan /\ IdleRelay /\ IdleJob /\ IdleFront /\ InitWait

SpecWait == InitWaitOnly /\ [][NextWait]_vars

\* ------------------------------------------------------------- properties
\* the files review_code was called on
Dispatched == {f \in FileIds : outcome[f] \notin {"none", "skipped"}} \cup
              (IF cur = 0 THEN {} ELSE {cur})

\* the files a request was sent for
PostedFiles == {posted[i].file : i \in 1..Len(posted)}

\* the outcomes that are failures of a dispatched file
FailureOutcomes == {"readerror", "non200", "timeout", "exception"}

\* the script has ended
Ended == pc \in {"done", "crashed"}

\* the segments of a file's path, taken from the tree and not from the string
PathSegments(f) == <<<<".">>>> \o Catalogue[f].dirs \o <<Catalogue[f].name>>

\* conditions (a) and (b) of the filter
PassesFilters(f) ==
    /\ \A i \in 1..Len(PathSegments(f)) : PathSegments(f)[i] \notin EXCLUDE_DIRS
    /\ \E ext \in source_extensions : EndsWith(Catalogue[f].name, ext)

\* the files of the catalogue that meet (a) and (b)
FilterPassing == {f \in FileIds : PassesFilters(f)}

\* C1: a file of the tree is opened and dispatched if and only if no segment
\* of its path is an exclusion token and its name ends with an allow-listed
\* extension; nothing else is ever opened or sent, and in the tree
\* {a.py, node_modules/b.js, README.md} exactly a.py is dispatched.
C1_FilterExact ==
    /\ opened \subseteq tree \cap FilterPassing
    /\ PostedFiles \subseteq tree \cap FilterPassing
    /\ \A f \in tree \ todo : f \in FilterPassing <=> f \in Dispatched
    /\ Ended => Dispatched = tree \cap FilterPassing
    /\ (Ended /\ tree = {1, 2, 3}) => Dispatched = {1}

C1_Witness ==
    /\ pc = "done"
    /\ tree = {1, 2, 3}
    /\ opened = {1}
    /\ PostedFiles = {1}

\* C2: a file whose call returns a status other than 200 yields no review,
\* and the walk still visits every file and dispatches every eligible file:
\* the run ends only with every file of the tree visited.
C2_Non200Continues ==
    /\ \A f \in FileIds : outcome[f] = "non200" =>
           \A i \in 1..Len(reviews) : reviews[i].src # f
    /\ ((\E f \in FileIds : outcome[f] = "non200") /\ Ended) =>
           /\ todo = {}
           /\ \A g \in tree :
                  /\ outcome[g] # "none"
                  /\ g \in EligibleFiles => g \in Dispatched

C2_Witness ==
    /\ pc = "done"
    /\ \E i \in 1..Len(visited) : \E j \in 1..Len(visited) :
        /\ i < j
        /\ outcome[visited[i]] = "non200"
        /\ visited[j] \in PostedFiles
        /\ outcome[visited[j]] = "reviewed"

\* C3: while no file has been reviewed successfully (none passed the
\* filters, or every dispatched one failed) the report path is never opened
\* for writing and holds what it held before the run.
C3_NoReportWithoutSuccess ==
    (\A f \in tree : outcome[f] \in FailureOutcomes \cup {"none", "skipped"})
        => /\ writes = 0
           /\ reportFile = reportFile0

C3_Witness ==
    /\ pc = "done"
    /\ reportFile0 = OldReport
    /\ reportFile = OldReport
    /\ writes = 0
    /\ \E f \in tree : outcome[f] = "non200"
    /\ \E f \in tree : outcome[f] = "skipped"
    /\ \A f \in tree : outcome[f] \in FailureOutcomes \cup {"skipped"}

\* C4: the accumulated list holds only responses of files whose call
\* succeeded; a file whose call failed has no entry in the list and no
\* subsection in the written report.
C4_OnlySuccessesAccumulated ==
    /\ \A i \in 1..Len(reviews) : outcome[reviews[i].src] = "reviewed"
    /\ \A f \in FileIds : outcome[f] \in FailureOutcomes =>
           /\ \A i \in 1..Len(reviews) : reviews[i].src # f
           /\ reportFile.t = "report" =>
                  \A i \in 1..Len(reportFile.sections) :
                      reportFile.sections[i].src # f

C4_Witness ==
    /\ reportFile.t = "report"
    /\ Len(reportFile.sections) = 1
    /\ \E f \in tree : outcome[f] = "timeout"
    /\ \E f \in tree : outcome[f] = "non200"

RECURSIVE Escaped(_)
\* the text with a backslash put before each '|', '*' and '_'
Escaped(s) ==
    IF s = <<>> THEN <<>>
    ELSE LET last == s[Len(s)]
         IN  Escaped(SubSeq(s, 1, Len(s) - 1)) \o
             (IF last \in {"|", "*", "_"} THEN <<"\\", last>> ELSE <<last>>)

\* C5: for a non-empty review text, the text placed in the report is the
\* input with each '|', '*' and '_' preceded by a backslash and every other
\* character unchanged and in place.
C5_EscapesEachSpecial ==
    (sanPc \in {"once", "twice"} /\ sanText.v # <<>>)
        => sanFirst = Escaped(sanText.v)

C5_Witness ==
    /\ sanPc = "once"
    /\ sanText.v = <<"|", "*", "_">>
    /\ sanFirst = <<"\\", "|", "\\", "*", "\\", "_">>

\* C6: sanitising an already sanitised text returns it unchanged:
\* sanitize(sanitize(s)) = sanitize(s).
C6_NoDoubleEscape ==
    sanPc = "twice" => sanSecond = sanFirst

\* C7: a relay request without code or without fileName is answered with
\* InvalidInput and causes no outbound call.
C7_InvalidInputNoCall ==
    /\ \A i \in 1..Len(rLog) :
           ~({"code", "fileName"} \subseteq DOMAIN rLog[i].req.m) =>
               /\ rLog[i].resp.kind = "InvalidInput"
               /\ rLog[i].calls = 0
               /\ rLog[i].up = NoReply
    /\ rPc = "calling" => {"code", "fileName"} \subseteq DOMAIN rReq.m
    /\ rOutbound =
           Cardinality({i \in 1..Len(rLog) :
                           {"code", "fileName"} \subseteq DOMAIN rLog[i].req.m})
           + (IF rPc = "calling" THEN 1 ELSE 0)

C7_Witness ==
    /\ Len(rLog) = 2
    /\ DOMAIN rLog[1].req.m = {"code"}
    /\ DOMAIN rLog[2].req.m = {"fileName"}
    /\ rLog[2].resp.kind = "InvalidInput"
    /\ rOutbound = 0

\* C8: for a request with both fields and an upstream reply of 200 with
\* {"response": X}, the relay returns exactly {fileName: the request's
\* fileName, reviewResults: {comprehensive_review: X}}.
C8_OkWrapsResponse ==
    \A i \in 1..Len(rLog) :
        (rLog[i].up.kind = "http" /\ rLog[i].up.status = 200) =>
            /\ rLog[i].resp.kind = "ok"
            /\ DOMAIN rLog[i].resp.body.m = {"fileName", "reviewResults"}
            /\ rLog[i].resp.body.m.fileName = rLog[i].req.m.fileName
            /\ rLog[i].resp.body.m.reviewResults =
                   Dict([comprehensive_review |-> rLog[i].up.body.m.response])

C8_Witness ==
    /\ Len(rLog) = 1
    /\ rLog[1].up.status = 200
    /\ rLog[1].req.m.fileName = Str(<<"y">>)
    /\ rLog[1].resp.body.m.reviewResults.m.comprehensive_review
           = Str(<<"a","|","*","_">>)

\* C9: a valid request causes exactly one outbound call; a non-200 reply or
\* a transport exception gives UpstreamError without a second call; and the
\* response depends on the request and its upstream reply only, not on
\* earlier requests.
C9_OneCallNoRetryNoState ==
    /\ rCalls <= 1
    /\ rPc = "calling" => rCalls = 1
    /\ \A i \in 1..Len(rLog) :
           /\ rLog[i].up # NoReply => rLog[i].calls = 1
           /\ (rLog[i].up.kind = "raise" \/
               (rLog[i].up.kind = "http" /\ rLog[i].up.status # 200))
                  => rLog[i].resp.kind = "UpstreamError"
    /\ \A i \in 1..Len(rLog) : \A j \in 1..Len(rLog) :
           (rLog[i].req = rLog[j].req /\ rLog[i].up = rLog[j].up)
               => rLog[i].resp = rLog[j].resp

C9_Witness ==
    /\ Len(rLog) = 2
    /\ rLog[1].up.kind = "raise"
    /\ rLog[1].resp.kind = "UpstreamError"
    /\ rLog[2].up.kind = "http"
    /\ rLog[2].up.status = 500
    /\ rLog[2].resp.kind = "UpstreamError"
    /\ rOutbound = 2

\* C10: the walk is sequential: at most one outbound call is in flight, and
\* a call is issued only when none is in flight.
C10_OneCallInFlight ==
    /\ inflight \in {0, 1}
    /\ inflight = 1 <=> pc = "await"
    /\ Len(posted) =
           Cardinality({f \in FileIds :
                           outcome[f] \in {"non200", "timeout", "exception",
                                           "reviewed", "falsy200"}})
           + inflight

C10_Witness ==
    /\ inflight = 1
    /\ Len(posted) = 2
    /\ outcome[posted[1].file] = "timeout"


\* C11: a call that times out or raises is the failure of its file only:
\* no file is sent twice, the file yields no review, and every file of the
\* tree is still visited and every eligible one dispatched.
C11_ExceptionFailsOneFile ==
    /\ \A i \in 1..Len(posted) : \A j \in 1..Len(posted) :
           i # j => posted[i].file # posted[j].file
    /\ \A f \in FileIds : outcome[f] \in {"timeout", "exception"} =>
           \A i \in 1..Len(reviews) : reviews[i].src # f
    /\ ((\E f \in FileIds : outcome[f] \in {"timeout", "exception"}) /\ Ended) =>
           /\ todo = {}
           /\ \A g \in tree :
                  /\ outcome[g] # "none"
                  /\ g \in EligibleFiles => g \in Dispatched

C11_Witness ==
    /\ pc = "done"
    /\ \E i \in 1..Len(visited) : \E j \in 1..Len(visited) :
        /\ i < j
        /\ outcome[visited[i]] = "timeout"
        /\ outcome[visited[j]] = "reviewed"
    /\ Len(posted) = 2

\* C12: the script ends with an uncaught exception only when writing the
\* report file fails; whatever the replies, it goes through all files and
\* through rendering.
C12_OnlyWriteFailureFatal ==
    /\ uncaught \in {"none", "OSError"}
    /\ Ended => todo = {}

\* C13: every request of the batch script is addressed to the relay's
\* review endpoint, POST /api/review, and never to the generation endpoint.
C13_PostsGoToRelay ==
    \A i \in 1..Len(postedTo) :
        /\ postedTo[i].path = "/api/review"
        /\ postedTo[i] # GenerateUrl

\* C14: in a written report the number of files reviewed equals the number
\* of successfully reviewed files and the number of subsections, one per
\* such file; the report holds no count of attempted files.
C14_CountIsSuccesses ==
    reportFile.t = "report" =>
        /\ reportFile.count = Cardinality({f \in FileIds : outcome[f] = "reviewed"})
        /\ reportFile.count = Len(reportFile.sections)
        /\ \A f \in FileIds : outcome[f] = "reviewed" =>
               Cardinality({i \in 1..Len(reportFile.sections) :
                               reportFile.sections[i].src = f}) = 1
        /\ DOMAIN reportFile = {"t", "count", "sections"}

C14_Witness ==
    /\ reportFile.t = "report"
    /\ reportFile.count = 2
    /\ Len(reportFile.sections) = 2
    /\ reportFile.sections[1].filename = reportFile.sections[2].filename
    /\ Cardinality(Dispatched) = 3

\* C15: the report is written at most once and only after every file has
\* been visited; no file is unvisited and no call in flight when it is
\* written, and no request is sent after it.
C15_WriteLastAndOnce ==
    /\ [](/\ writes <= 1
          /\ writes > 0 => (todo = {} /\ inflight = 0 /\ cur = 0))
    /\ [][writes > 0 => (posted' = posted /\ writes' = writes)]_vars

C15_Witness ==
    /\ pc = "done"
    /\ writes = 1
    /\ Len(posted) = 2
    /\ Len(visited) = 3

\* C16: every dispatched file that is left out of the report has a
\* diagnostic line on standard output.
C16_EveryDropLogged ==
    \A f \in FileIds :
        outcome[f] \in FailureOutcomes \cup {"falsy200"} =>
            \E i \in 1..Len(stdout) :
                /\ stdout[i].file = f
                /\ stdout[i].line \in {"Error", "Exception"}

C18_SubmitPostsToRelay ==
    /\ Len(fePosts) = feSubmits
    /\ feShown # NotShown => (feShown.t = "shown" /\ feShown.origin = "relay")

\* C19: when the review step has written a report, the commit step stages
\* and commits that file and nothing else; the commit step runs only after
\* the script has ended; and a failing add, commit or push leaves the job
\* unfailed.
C19_CommitsWrittenReport ==
    /\ step \in {"add", "commit", "push", "end"} => pc = "done"
    /\ writes > 0 => writtenPath = GitAddPath
    /\ staged \subseteq {GitAddPath}
    /\ committed \subseteq staged
    /\ (writes > 0 /\ step \in {"commit", "push", "end"} /\ "add" \notin gitErrors)
           => staged = {writtenPath}
    /\ (writes > 0 /\ step \in {"push", "end"} /\ gitErrors \cap {"add", "commit"} = {})
           => committed = {writtenPath}
    /\ jobFailed => (pc = "crashed" /\ gitErrors = {})
    /\ step = "end" => ~jobFailed

C19_Witness ==
    /\ step = "end"
    /\ writes = 1
    /\ committed = {report_path}
    /\ gitErrors = {"push"}
    /\ ~pushed
    /\ ~jobFailed

\* the files reviewed successfully, in the order the walk visited them
ReviewedInOrder == SelectSeq(visited, LAMBDA f : outcome[f] = "reviewed")

\* the file each element of a list of responses or of subsections comes from
Sources(rs) == [i \in 1..Len(rs) |-> rs[i].src]

\* C21: the accumulated list only grows at its end: each state of it is a
\* prefix of every later one; its entries, and the subsections of the
\* written report, stand in the order in which their files were reviewed
\* successfully, which is the visiting order restricted to the successes.
C21_AppendOnlyInOrder ==
    /\ [](/\ Sources(reviews) = ReviewedInOrder
          /\ reportFile.t = "report" =>
                 Sources(reportFile.sections) = ReviewedInOrder)
    /\ [][/\ Len(reviews) <= Len(reviews')
          /\ SubSeq(reviews', 1, Len(reviews)) = reviews]_vars

C21_Witness ==
    /\ reportFile.t = "report"
    /\ Len(visited) = 3
    /\ Len(reportFile.sections) = 2
    /\ outcome[visited[2]] = "non200"
    /\ reportFile.sections[1].src = visited[1]
    /\ reportFile.sections[2].src = visited[3]

\* C22: in a written report every accumulated response has its subsection
\* and is counted, and an absent field is rendered as a fixed text: no
\* fileName as 'Unknown File', no reviewResults or no comprehensive_review
\* as 'No detailed review available.', an empty comprehensive_review as
\* 'No review content available.'.
C22_PlaceholdersForAbsentFields ==
    reportFile.t = "report" =>
        /\ reportFile.count = Len(reviews)
        /\ Len(reportFile.sections) = Len(reviews)
        /\ \A i \in 1..Len(reviews) :
               LET r == reviews[i].json.m
                   s == reportFile.sections[i]
               IN  /\ s.src = reviews[i].src
                   /\ "fileName" \notin DOMAIN r =>
                          s.filename = Str(<<"Unknown File">>)
                   /\ "reviewResults" \notin DOMAIN r =>
                          s.body = <<"No detailed review available.">>
                   /\ ("reviewResults" \in DOMAIN r /\
                       "comprehensive_review" \notin DOMAIN r.reviewResults.m)
                          => s.body = <<"No detailed review available.">>
                   /\ ("reviewResults" \in DOMAIN r /\
                       "comprehensive_review" \in DOMAIN r.reviewResults.m /\
                       r.reviewResults.m.comprehensive_review = Str(<<>>))
                          => s.body = <<"No review content available.">>

C22_Witness ==
    /\ reportFile.t = "report"
    /\ reportFile.count = 3
    /\ \E i \in 1..3 : \E j \in 1..3 : \E k \in 1..3 :
        /\ DOMAIN reviews[i].json.m = {"response"}
        /\ reportFile.sections[i].filename = Str(<<"Unknown File">>)
        /\ reportFile.sections[i].body = <<"No detailed review available.">>
        /\ "reviewResults" \in DOMAIN reviews[j].json.m
        /\ reviews[j].json.m.reviewResults = EmptyDict
        /\ reportFile.sections[j].body = <<"No detailed review available.">>
        /\ "reviewResults" \in DOMAIN reviews[k].json.m
        /\ reviews[k].json.m.reviewResults =
               Dict([comprehensive_review |-> Str(<<>>)])
        /\ reportFile.sections[k].body = <<"No review content available.">>

\* C23: each request carries as code the whole text of its file and as
\* fileName the last segment of the file's path, so that two files of the
\* same name in different directories are sent with the same fileName.
C23_RequestCarriesTextAndBaseName ==
    \A i \in 1..Len(posted) :
        /\ posted[i].code = Catalogue[posted[i].file].content
        /\ posted[i].fileName =
               PathSegments(posted[i].file)[Len(PathSegments(posted[i].file))]
        /\ \A j \in 1..Len(posted) :
               Catalogue[posted[i].file].name = Catalogue[posted[j].file].name
                   => posted[i].fileName = posted[j].fileName

C23_Witness ==
    /\ Len(posted) = 2
    /\ posted[1].file = 1
    /\ posted[2].file = 4
    /\ Catalogue[1].dirs # Catalogue[4].dirs
    /\ posted[1].fileName = <<"a", ".", "p", "y">>
    /\ posted[2].fileName = <<"a", ".", "p", "y">>
    /\ posted[1].code = "print(1)"
    /\ posted[2].code = "print(2)"

\* C24: every file whose call returned 200 with a body that decodes has
\* exactly one entry in the accumulated list, and one subsection in the
\* report once the run has ended, whatever the value of the body.
C24_Every200Accumulated ==
    \A f \in FileIds :
        outcome[f] \in {"reviewed", "falsy200"} =>
            /\ Cardinality({i \in 1..Len(reviews) : reviews[i].src = f}) = 1
            /\ Ended =>
                   /\ reportFile.t = "report"
                   /\ Cardinality({i \in 1..Len(reportFile.sections) :
                                      reportFile.sections[i].src = f}) = 1

\* C25: an eligible file that cannot be opened or read causes no request,
\* gets a diagnostic line and no entry in the list or the report, and the
\* walk goes on: the run ends only with every file visited.
C25_UnreadableFileSkipped ==
    /\ [](/\ \A f \in FileIds : outcome[f] = "readerror" =>
                 /\ f \notin PostedFiles
                 /\ \E i \in 1..Len(stdout) : stdout[i] = Line("Exception", f)
                 /\ \A i \in 1..Len(reviews) : reviews[i].src # f
                 /\ reportFile.t = "report" =>
                        \A i \in 1..Len(reportFile.sections) :
                            reportFile.sections[i].src # f
          /\ ((\E f \in FileIds : outcome[f] = "readerror") /\ Ended) =>
                 /\ todo = {}
                 /\ \A g \in tree :
                        /\ outcome[g] # "none"
                        /\ g \in EligibleFiles => g \in Dispatched)
    /\ [][(\E f \in FileIds : outcome[f] = "none" /\ outcome'[f] = "readerror")
              => (posted' = posted /\ inflight' = inflight /\ pc' = "walk")]_vars

C25_Witness ==
    /\ pc = "done"
    /\ \E i \in 1..Len(visited) : \E j \in 1..Len(visited) :
        /\ i < j
        /\ outcome[visited[i]] = "readerror"
        /\ visited[i] \notin PostedFiles
        /\ outcome[visited[j]] = "reviewed"
    /\ Len(posted) = 1

\* the steps of main up to the end of the os.walk loop
WalkStep ==
    \/ MakeDirs
    \/ Skip
    \/ ReadError
    \/ Post
    \/ ReturnError
    \/ ReturnException
    \/ ReturnJson

\* the batch script keeps running: a sequential program takes its next step,
\* and every call it waits for returns, raises or times out. After the loop
\* the write of the report succeeds or fails under one guard, so the
\* fairness of the failing write is the fairness of the write.
SpecFair ==
    /\ Init
    /\ [][Next]_vars
    /\ WF_vars(WalkStep)
    /\ WF_vars(NoReport \/ RenderCrash \/ WriteFail)

\* times the loop visited file f
VisitCount(f) == Cardinality({i \in 1..Len(visited) : visited[i] = f})

\* times review_code was entered for file f
DispatchCount(f) ==
    Cardinality({i \in 1..Len(stdout) : stdout[i] = Line("Reviewing", f)})

UploadedTexts == {UploadText[f] : f \in UploadFiles}

\* C27: once every started read has completed, the code the form holds from
\* a read is the text of the file selected last, whatever the order of
\* completion; and a submit made while the selected file's read is pending
\* carries that file's text, not the code held before.
C27_LastSelectedFileWins ==
    /\ (feFile # 0 /\ feReads = <<>> /\ feCode \in UploadedTexts)
           => feCode = UploadText[feFile]
    /\ (feSubmits > 0 /\ feFile # 0 /\ feReads # <<>>)
           => feLocState.code = UploadText[feFile]

\* C28: the state given to navigate by a submit holds all that the results
\* page reads, code and apiResult with fileName, codeLength and
\* reviewResults, and the results page never fails on an absent apiResult.
C28_NavigationCarriesAllState ==
    /\ feSubmits > 0 =>
           /\ {"code", "apiResult"} \subseteq DOMAIN feLocState
           /\ {"fileName", "codeLength", "reviewResults"}
                  \subseteq DOMAIN feLocState.apiResult
    /\ feShown # [t |-> "TypeError"]

\* C29: the readiness wait polls at most 30 times and not again after a
\* poll has succeeded, and the steps after it (model pull, .env, backend,
\* review) begin only when a poll has succeeded.
C29_WaitBoundedAndGating ==
    /\ polls <= 30
    /\ okAt # 0 => polls = okAt
    /\ wStep \in {"pull", "env", "deps", "backend", "review"} => okAt # 0

====
